---- MODULE Spec2Model ----
(***************************************************************************)
(* Chat backend (chat-backend/src/main.rs): the user registry (Users), the *)
(* message log (Messages), the broadcast hub (Broadcast, a tokio           *)
(* broadcast channel), the request handlers (signin, users_list,           *)
(* messages_list, message_send), the websocket sessions (handle_socket)    *)
(* and the logging subscriber started by main (log_broadcast).             *)
(***************************************************************************)
EXTENDS Integers, Sequences, FiniteSets, TLC

\* ------------------------------------------------------------- bounds
\* Number of concurrently running tasks that call the registry or the log.
NumTasks == 3
\* Number of requests the handlers take (signin, message_send).
MaxRequests == 3
\* Number of direct calls of Users::add_user, respectively Messages::send.
MaxCalls == 3
\* Direct calls of Broadcast::sign_in and Broadcast::send_message: this many
\* more than the channel's ring holds.
MaxOverrun == 2
\* The capacities asked of broadcast::channel; the program asks for 1000,
\* which is out of reach of an exhaustive search. 3 is not a power of two.
RequestedCapacities == { 1, 2, 3 }

Tasks == 1..NumTasks
\* The tasks that call Users::list, respectively Messages::list, directly.
Listers == { 1, 2 }
\* The tasks that serve requests in the application.
AppTasks == { 1, 2 }
\* The task that serves GET /users and GET /messages in the application.
AppListers == { 1 }
\* The websocket connections that may be opened, numbered in the order they
\* connect; the application is explored with the first of them.
Sessions == { 1, 2 }
AppSessions == { 1 }
\* The receiver returned by Broadcast::new, which main hands to log_broadcast.
LogRx == 0
Receivers == {LogRx} \cup Sessions

\* User names are strings, modelled as sequences of byte values so that the
\* lexicographic order of String (byte-wise) can be computed.
Names == { <<1>>, <<1, 2>>, <<2>> }
\* Names the handlers are called with.
SigninNames == { <<2>> }
SenderNames == { <<1>> }
Texts == { "hi" }

VARIABLES
    data,          \* Users.data: the HashSet behind the RwLock
    usersLock,     \* the RwLock of Users.data: its writer and its readers
    messages,      \* Messages.messages: the Vec behind the RwLock
    counter,       \* Messages.counter: the AtomicUsize
    messagesLock,  \* the RwLock of Messages.messages
    capacity,      \* the capacity Broadcast::new asks of broadcast::channel
    buffer,        \* the broadcast channel's ring of slots
    tailPos,       \* the channel's tail.pos: position of the next send
    rxCnt,         \* the channel's tail.rx_cnt: live receivers
    rx,            \* each Receiver: its state and its next position
    seen,          \* history: what each receiver's recv calls returned
    wire,          \* history: the frames written to each session's socket
    lastPublish,   \* the result of the last direct call of the hub
    task,          \* each request task: its position and locals
    resp,          \* the last response each task returned to its caller
    published,     \* history: the events the channel accepted, in order
    overrun,       \* history: receivers that had a slot they had not read overwritten
    called,        \* history: names Users::add_user was called with
    added,         \* history: names whose Users::add_user call has returned
    nreq           \* history: requests started

vars == << data, usersLock, messages, counter, messagesLock, capacity, buffer, tailPos,
           rxCnt, rx, seen, wire, lastPublish, task, resp, published, overrun,
           called, added, nreq >>

usersVars == << data, usersLock, called, added >>
logVars == << messages, counter, messagesLock >>
hubVars == << capacity, buffer, tailPos, rxCnt, published, overrun >>
sessVars == << rx, seen, wire >>

\* ------------------------------------------------------------ helpers
Range(s) == { s[i] : i \in DOMAIN s }

\* usize::next_power_of_two
RECURSIVE PowerOfTwoFrom(_, _)
PowerOfTwoFrom(p, n) == IF p >= n THEN p ELSE PowerOfTwoFrom(2 * p, n)

NextPowerOfTwo(n) == PowerOfTwoFrom(1, n)

\* broadcast::channel(capacity) rounds the capacity up to a power of two;
\* this is the length of the ring of slots.
BufferLen == NextPowerOfTwo(capacity)

\* Byte-wise lexicographic order of two strings (Ord for String).
RECURSIVE LexLess(_, _)
LexLess(a, b) ==
    IF b = << >> THEN FALSE
    ELSE IF a = << >> THEN TRUE
    ELSE IF Head(a) < Head(b) THEN TRUE
    ELSE IF Head(a) > Head(b) THEN FALSE
    ELSE LexLess(Tail(a), Tail(b))

\* Insert x into the sorted sequence s, after the elements not greater.
RECURSIVE InsertName(_, _)
InsertName(x, s) ==
    IF s = << >> THEN << x >>
    ELSE IF LexLess(x, Head(s)) THEN << x >> \o s
    ELSE << Head(s) >> \o InsertName(x, Tail(s))

\* The vector left as collected: the sort is missing.
SortNamesNone(s) == s

\* results.sort() on a Vec<String>
RECURSIVE SortNames(_)
SortNames(s) ==
    IF s = << >> THEN << >> ELSE InsertName(Head(s), SortNames(Tail(s)))

RECURSIVE InsertByIndex(_, _)
InsertByIndex(m, s) ==
    IF s = << >> THEN << m >>
    ELSE IF m.index < Head(s).index THEN << m >> \o s
    ELSE << Head(s) >> \o InsertByIndex(m, Tail(s))

\* results.sort_by_key(|m| m.index) on a Vec<MessagePayload> (stable)
RECURSIVE SortByIndex(_)
SortByIndex(s) ==
    IF s = << >> THEN << >>
    ELSE LET n == Len(s) IN
         InsertByIndex(s[n], SortByIndex(SubSeq(s, 1, n - 1)))

\* The orders in which a HashSet's iterator may yield its elements.
Orderings(S) ==
    { f \in [1..Cardinality(S) -> S] : \A x \in S : \E i \in DOMAIN f : f[i] = x }

\* MessagePayload::new
MessagePayload(user, message, index) ==
    [index |-> index, user |-> user, message |-> message]

\* BroadcastPayload::SignIn(SignInResponse { user })
SignInEvent(user) == [tag |-> "signIn", user |-> user]

\* BroadcastPayload::Message(payload)
MessageEvent(payload) == [tag |-> "message", message |-> payload]

\* A slot of the ring that holds no value yet
NoEvent == [tag |-> "none"]

\* A load and a store in place of the atomic add: the increment is lost.
FetchAddLost(c) == c

\* AtomicUsize::fetch_add(1): the new value of the counter
FetchAdd(c) == c + 1

NoLock == [writer |-> 0, readers |-> {}]
IdleTask == [pc |-> "idle", kind |-> "none"]
NoResp == [kind |-> "none"]

\* A write lock that is granted while readers hold the lock.
CanWriteOverReaders(lock) == lock.writer = 0

\* RwLock::write resolves when nobody holds the lock.
CanWrite(lock) == lock.writer = 0 /\ lock.readers = {}

\* RwLock::read resolves when no writer holds the lock.
CanRead(lock) == lock.writer = 0

\* ------------------------------------------------- broadcast channel
\* Sender::send, its result: Err(SendError) when there is no receiver.
SendOk == rxCnt > 0

\* A send that waits while a live receiver has a full ring of unread values
\* (back-pressure, as a bounded queue would).
SendEffectBlocking(event) ==
    /\ \A r \in Receivers : rx[r].state = "Active" => tailPos - rx[r].next < BufferLen
    /\ IF SendOk
       THEN /\ buffer' = [buffer EXCEPT ![tailPos % BufferLen] =
                              [pos |-> tailPos, val |-> event]]
            /\ tailPos' = tailPos + 1
            /\ published' = Append(published, event)
            /\ UNCHANGED << capacity, rxCnt, overrun >>
       ELSE UNCHANGED hubVars

\* Sender::send, its effect on the channel: the value is written at tail.pos,
\* over the slot's previous value, and tail.pos advances.
SendEffect(event) ==
    IF SendOk
    THEN /\ buffer' = [buffer EXCEPT ![tailPos % BufferLen] =
                           [pos |-> tailPos, val |-> event]]
         /\ tailPos' = tailPos + 1
         /\ published' = Append(published, event)
         /\ overrun' = overrun \cup { r \in Receivers : /\ rx[r].state = "Active"
                                                       /\ tailPos - rx[r].next >= BufferLen }
         /\ UNCHANGED << capacity, rxCnt >>
    ELSE UNCHANGED hubVars

\* A receive that hands out the value without advancing the position.
RecvRefRepeat(next) ==
    LET slot == buffer[next % BufferLen]
        oldest == tailPos - BufferLen
    IN  IF slot.pos = next
        THEN [kind |-> "Ok", val |-> slot.val, next |-> next]
        ELSE IF slot.pos + BufferLen = next
        THEN [kind |-> "Empty", next |-> next]
        ELSE [kind |-> "Lagged", missed |-> oldest - next, next |-> oldest]

\* A receive that, on lagging, skips the retained values too.
RecvRefDropsRetained(next) ==
    LET slot == buffer[next % BufferLen]
        oldest == tailPos - BufferLen
    IN  IF slot.pos = next
        THEN [kind |-> "Ok", val |-> slot.val, next |-> next + 1]
        ELSE IF slot.pos + BufferLen = next
        THEN [kind |-> "Empty", next |-> next]
        ELSE [kind |-> "Lagged", missed |-> oldest - next, next |-> tailPos]

\* Receiver::recv, one poll at position next: a value, Lagged(missed) with
\* the position moved to the oldest retained value, or Empty (the call waits).
RecvRef(next) ==
    LET slot == buffer[next % BufferLen]
        oldest == tailPos - BufferLen
    IN  IF slot.pos = next
        THEN [kind |-> "Ok", val |-> slot.val, next |-> next + 1]
        ELSE IF slot.pos + BufferLen = next
        THEN [kind |-> "Empty", next |-> next]
        ELSE IF oldest - next = 0
        THEN [kind |-> "Ok", val |-> slot.val, next |-> next + 1]
        ELSE [kind |-> "Lagged", missed |-> oldest - next, next |-> oldest]

\* RecvError::Lagged(n) as a receiver observes it
LaggedItem(n) == [tag |-> "lagged", missed |-> n]

\* ----------------------------------------------------------- initial
Init ==
    /\ data = {}
    /\ usersLock = NoLock
    /\ messages = << >>
    /\ counter = 0
    /\ messagesLock = NoLock
    /\ capacity \in RequestedCapacities
    /\ buffer = [i \in 0..(BufferLen - 1) |-> [pos |-> i - BufferLen, val |-> NoEvent]]
    /\ tailPos = 0
    /\ rxCnt = 1
    /\ rx = [r \in Receivers |->
                IF r = LogRx THEN [state |-> "Active", since |-> 0, next |-> 0]
                             ELSE [state |-> "Init"]]
    /\ seen = [r \in Receivers |-> << >>]
    /\ wire = [s \in Sessions |-> << >>]
    /\ lastPublish = "none"
    /\ task = [t \in Tasks |-> IdleTask]
    /\ resp = [t \in Tasks |-> NoResp]
    /\ published = << >>
    /\ overrun = {}
    /\ called = {}
    /\ added = {}
    /\ nreq = 0

\* ------------------------------------------------------------- Users
\* Users::add_user up to its await: the caller asks for the write lock.
\* kind is "signin" for the handler, "add_user" for a direct call.
AddUserCall(t, kind, user) ==
    /\ task[t].pc = "idle"
    /\ task' = [task EXCEPT ![t] = [pc |-> "add_user_wait", kind |-> kind,
                                    user |-> user]]
    /\ called' = called \cup {user}
    /\ resp' = [resp EXCEPT ![t] = NoResp]

\* self.data.write().await resolves.
AddUserAcquire(t) ==
    /\ task[t].pc = "add_user_wait"
    /\ CanWrite(usersLock)
    /\ usersLock' = [usersLock EXCEPT !.writer = t]
    /\ task' = [task EXCEPT ![t].pc = "add_user_locked"]
    /\ UNCHANGED << data, called, added, logVars, hubVars, sessVars, resp, lastPublish, nreq >>

\* An insert that leaves the set as it was.
InsertUserNone(set, user) == set

\* HashSet::insert
InsertUser(set, user) == set \cup {user}

\* data.insert(user); the guard is dropped when add_user returns. The signin
\* handler goes on to publish; a direct caller is done.
AddUserInsert(t) ==
    /\ task[t].pc = "add_user_locked"
    /\ usersLock.writer = t
    /\ data' = InsertUser(data, task[t].user)
    /\ added' = added \cup {task[t].user}
    /\ UNCHANGED called
    /\ usersLock' = [usersLock EXCEPT !.writer = 0]
    /\ IF task[t].kind = "signin"
       THEN /\ task' = [task EXCEPT ![t].pc = "sign_in_publish"]
            /\ UNCHANGED resp
       ELSE /\ task' = [task EXCEPT ![t] = IdleTask]
            /\ resp' = [resp EXCEPT ![t] = [kind |-> "add_user"]]
    /\ UNCHANGED << logVars, hubVars, sessVars, lastPublish, nreq >>

\* Users::list up to its await: the caller asks for the read lock.
UsersListCall(t) ==
    /\ task[t].pc = "idle"
    /\ task' = [task EXCEPT ![t] = [pc |-> "users_list_wait", kind |-> "users_list",
                                    pre |-> added]]
    /\ resp' = [resp EXCEPT ![t] = NoResp]
    /\ UNCHANGED << usersVars, logVars, hubVars, sessVars, lastPublish, nreq >>

\* self.data.read().await resolves.
UsersListAcquire(t) ==
    /\ task[t].pc = "users_list_wait"
    /\ CanRead(usersLock)
    /\ usersLock' = [usersLock EXCEPT !.readers = @ \cup {t}]
    /\ task' = [task EXCEPT ![t].pc = "users_list_locked"]
    /\ UNCHANGED << data, called, added, logVars, hubVars, sessVars, resp, lastPublish, nreq >>

\* The rest of Users::list: collect the set in its iteration order, sort,
\* return (the guard is dropped); users_list answers with the result.
UsersListRead(t) ==
    /\ task[t].pc = "users_list_locked"
    /\ t \in usersLock.readers
    /\ \E collected \in Orderings(data) :
           resp' = [resp EXCEPT ![t] = [kind |-> "users_list", status |-> 200,
                                        users |-> SortNames(collected),
                                        pre |-> task[t].pre]]
    /\ usersLock' = [usersLock EXCEPT !.readers = @ \ {t}]
    /\ task' = [task EXCEPT ![t] = IdleTask]
    /\ UNCHANGED << data, called, added, logVars, hubVars, sessVars, lastPublish, nreq >>

\* ---------------------------------------------------------- Messages
\* Messages::send up to its await: the index is taken from the counter
\* (fetch_add), the payload is built, the caller asks for the write lock.
\* kind is "message_send" for the handler, "send" for a direct call.
SendCall(t, kind, user, message) ==
    /\ task[t].pc = "idle"
    /\ counter' = FetchAdd(counter)
    /\ task' = [task EXCEPT ![t] = [pc |-> "send_wait", kind |-> kind,
                    user |-> user, message |-> message,
                    payload |-> MessagePayload(user, message, counter)]]
    /\ resp' = [resp EXCEPT ![t] = NoResp]

\* self.messages.write().await resolves.
SendAcquire(t) ==
    /\ task[t].pc = "send_wait"
    /\ CanWrite(messagesLock)
    /\ messagesLock' = [messagesLock EXCEPT !.writer = t]
    /\ task' = [task EXCEPT ![t].pc = "send_locked"]
    /\ UNCHANGED << messages, counter, usersVars, hubVars, sessVars, resp, lastPublish, nreq >>

\* A push that keeps only the newest message.
PushMessageOver(vec, payload) == << payload >>

\* Vec::push
PushMessage(vec, payload) == Append(vec, payload)

\* A send that returns the payload without storing it.
SendPushUnstored(t) ==
    /\ task[t].pc = "send_locked"
    /\ messagesLock.writer = t
    /\ UNCHANGED messages
    /\ messagesLock' = [messagesLock EXCEPT !.writer = 0]
    /\ IF task[t].kind = "message_send"
       THEN /\ task' = [task EXCEPT ![t].pc = "send_message_publish"]
            /\ UNCHANGED resp
       ELSE /\ task' = [task EXCEPT ![t] = IdleTask]
            /\ resp' = [resp EXCEPT ![t] = [kind |-> "send",
                                            payload |-> task[t].payload]]
    /\ UNCHANGED << counter, usersVars, hubVars, sessVars, lastPublish, nreq >>

\* messages.push(payload.clone()); payload is returned and the guard dropped.
SendPush(t) ==
    /\ task[t].pc = "send_locked"
    /\ messagesLock.writer = t
    /\ messages' = PushMessage(messages, task[t].payload)
    /\ messagesLock' = [messagesLock EXCEPT !.writer = 0]
    /\ IF task[t].kind = "message_send"
       THEN /\ task' = [task EXCEPT ![t].pc = "send_message_publish"]
            /\ UNCHANGED resp
       ELSE /\ task' = [task EXCEPT ![t] = IdleTask]
            /\ resp' = [resp EXCEPT ![t] = [kind |-> "send",
                                            payload |-> task[t].payload]]
    /\ UNCHANGED << counter, usersVars, hubVars, sessVars, lastPublish, nreq >>

\* Messages::list up to its await.
MessagesListCall(t) ==
    /\ task[t].pc = "idle"
    /\ task' = [task EXCEPT ![t] = [pc |-> "messages_list_wait",
                                    kind |-> "messages_list"]]
    /\ resp' = [resp EXCEPT ![t] = NoResp]
    /\ UNCHANGED << usersVars, logVars, hubVars, sessVars, lastPublish, nreq >>

\* self.messages.read().await resolves.
MessagesListAcquire(t) ==
    /\ task[t].pc = "messages_list_wait"
    /\ CanRead(messagesLock)
    /\ messagesLock' = [messagesLock EXCEPT !.readers = @ \cup {t}]
    /\ task' = [task EXCEPT ![t].pc = "messages_list_locked"]
    /\ UNCHANGED << messages, counter, usersVars, hubVars, sessVars, resp, lastPublish, nreq >>

\* The rest of Messages::list: clone the vector, sort by index, return;
\* messages_list answers with the result.
MessagesListRead(t) ==
    /\ task[t].pc = "messages_list_locked"
    /\ t \in messagesLock.readers
    /\ resp' = [resp EXCEPT ![t] = [kind |-> "messages_list", status |-> 200,
                                    messages |-> SortByIndex(messages)]]
    /\ messagesLock' = [messagesLock EXCEPT !.readers = @ \ {t}]
    /\ task' = [task EXCEPT ![t] = IdleTask]
    /\ UNCHANGED << messages, counter, usersVars, hubVars, sessVars, lastPublish, nreq >>

\* ------------------------------------------------------ direct calls
\* A caller other than a handler calls users.add_user(name).await.
AddUserStart(t) ==
    /\ nreq < MaxCalls
    /\ \E user \in Names : AddUserCall(t, "add_user", user)
    /\ nreq' = nreq + 1
    /\ UNCHANGED << data, usersLock, added, logVars, hubVars, sessVars, lastPublish >>

\* A caller other than a handler calls messages.send(user, message).await.
SendStart(t) ==
    /\ nreq < MaxCalls
    /\ \E user \in SenderNames, message \in Texts :
           SendCall(t, "send", user, message)
    /\ nreq' = nreq + 1
    /\ UNCHANGED << messages, messagesLock, usersVars, hubVars, sessVars, lastPublish >>

\* The event of the k-th direct publish: as in the websocket test, a SignIn
\* first and then Messages, here numbered in order.
DirectEvent(k) ==
    IF k = 0
    THEN SignInEvent(CHOOSE u \in SigninNames : TRUE)
    ELSE MessageEvent(MessagePayload(CHOOSE u \in SenderNames : TRUE,
                                     CHOOSE m \in Texts : TRUE, k - 1))

\* A caller other than a handler calls broadcast.sign_in(..) or
\* broadcast.send_message(..): synchronous, the result is Ok(()) or
\* Err(ChatError::SendError).
Publish ==
    /\ nreq < BufferLen + MaxOverrun
    /\ SendEffect(DirectEvent(nreq))
    /\ lastPublish' = IF SendOk THEN "Ok" ELSE "Err"
    /\ nreq' = nreq + 1
    /\ UNCHANGED << usersVars, logVars, sessVars, task, resp >>

\* ---------------------------------------------------------- handlers
\* POST /signin: the handler runs into users.add_user(..).await.
SigninStart(t) ==
    /\ nreq < MaxRequests
    /\ \E user \in SigninNames : AddUserCall(t, "signin", user)
    /\ nreq' = nreq + 1
    /\ UNCHANGED << data, usersLock, added, logVars, hubVars, sessVars, lastPublish >>

\* A sign-in that takes the name out of the registry again when the publish
\* fails.
SigninPublishRollback(t) ==
    /\ task[t].pc = "sign_in_publish"
    /\ SendEffect(SignInEvent(task[t].user))
    /\ resp' = [resp EXCEPT ![t] =
                   IF SendOk
                   THEN [kind |-> "signin", status |-> 200, user |-> task[t].user]
                   ELSE [kind |-> "signin", status |-> 500, user |-> task[t].user]]
    /\ data' = IF SendOk THEN data ELSE data \ {task[t].user}
    /\ task' = [task EXCEPT ![t] = IdleTask]
    /\ UNCHANGED << usersLock, called, added, logVars, sessVars, lastPublish, nreq >>

\* broadcast.sign_in(response.clone())?; Ok(Json(response))
SigninPublish(t) ==
    /\ task[t].pc = "sign_in_publish"
    /\ SendEffect(SignInEvent(task[t].user))
    /\ resp' = [resp EXCEPT ![t] =
                   IF SendOk
                   THEN [kind |-> "signin", status |-> 200, user |-> task[t].user]
                   ELSE [kind |-> "signin", status |-> 500, user |-> task[t].user]]
    /\ task' = [task EXCEPT ![t] = IdleTask]
    /\ UNCHANGED << usersVars, logVars, sessVars, lastPublish, nreq >>

\* POST /messages: the handler runs into messages.send(..).await.
MessageSendStart(t) ==
    /\ nreq < MaxRequests
    /\ \E user \in SenderNames, message \in Texts :
           SendCall(t, "message_send", user, message)
    /\ nreq' = nreq + 1
    /\ UNCHANGED << messages, messagesLock, usersVars, hubVars, sessVars, lastPublish >>

\* A message_send that answers with the index handed out last instead of
\* the index of its own message.
MessageSendPublishLatest(t) ==
    /\ task[t].pc = "send_message_publish"
    /\ SendEffect(MessageEvent(task[t].payload))
    /\ resp' = [resp EXCEPT ![t] =
                   IF SendOk
                   THEN [kind |-> "message_send", status |-> 200,
                         index |-> counter - 1]
                   ELSE [kind |-> "message_send", status |-> 500,
                         index |-> task[t].payload.index]]
    /\ task' = [task EXCEPT ![t] = IdleTask]
    /\ UNCHANGED << usersVars, logVars, sessVars, lastPublish, nreq >>

\* broadcast.send_message(message.clone())?; Ok(Json(MessageSendResponse))
MessageSendPublish(t) ==
    /\ task[t].pc = "send_message_publish"
    /\ SendEffect(MessageEvent(task[t].payload))
    /\ resp' = [resp EXCEPT ![t] =
                   IF SendOk
                   THEN [kind |-> "message_send", status |-> 200,
                         index |-> task[t].payload.index]
                   ELSE [kind |-> "message_send", status |-> 500,
                         index |-> task[t].payload.index]]
    /\ task' = [task EXCEPT ![t] = IdleTask]
    /\ UNCHANGED << usersVars, logVars, sessVars, lastPublish, nreq >>

\* ---------------------------------------------------------- sessions
\* The inbound side of the socket: Some(Ok(Message::Close)), the four other
\* frames, Some(Err(e)), and None (the stream ended).
ClosingFrames == { "close", "error", "eof" }
OtherFrames == { "text", "binary", "ping", "pong" }
Frames == ClosingFrames \cup OtherFrames

\* A subscription that starts at the oldest position instead of the tail.
SubscribeFromStart(r) ==
    /\ rx' = [rx EXCEPT ![r] = [state |-> "Active", since |-> tailPos,
                                next |-> IF tailPos > BufferLen
                                         THEN tailPos - BufferLen ELSE 0]]
    /\ rxCnt' = rxCnt + 1

\* Sender::subscribe
Subscribe(r) ==
    /\ rx' = [rx EXCEPT ![r] = [state |-> "Active", since |-> tailPos,
                                next |-> tailPos]]
    /\ rxCnt' = rxCnt + 1

\* A drop that leaves the receiver counted.
DropReceiverLeak(r, why) ==
    /\ rx' = [rx EXCEPT ![r] = [state |-> "Closed", since |-> rx[r].since,
                                exit |-> why]]
    /\ rxCnt' = rxCnt

\* Drop for Receiver: the receiver leaves the channel.
DropReceiver(r, why) ==
    /\ rx' = [rx EXCEPT ![r] = [state |-> "Closed", since |-> rx[r].since,
                                exit |-> why]]
    /\ rxCnt' = rxCnt - 1

\* GET /ws: websocket_endpoint upgrades and handle_socket subscribes.
SessionOpen(s) ==
    /\ rx[s].state = "Init"
    /\ \A o \in Sessions : o < s => rx[o].state # "Init"
    /\ Subscribe(s)
    /\ UNCHANGED << usersVars, logVars, capacity, buffer, tailPos, published, overrun, seen, wire,
                    task, resp, lastPublish, nreq >>

\* select!: socket.recv() is ready with Close, Err or None: handle_socket
\* returns and its receiver is dropped.
SessionClose(s) ==
    /\ rx[s].state = "Active"
    /\ \E f \in ClosingFrames : TRUE
    /\ DropReceiver(s, "returned")
    /\ UNCHANGED << usersVars, logVars, capacity, buffer, tailPos, published, overrun,
                    seen, wire, task, resp, lastPublish, nreq >>

\* select!: socket.recv() is ready with Text, Binary, Ping or Pong and the
\* session treats the frame as the end of the connection.
SessionIgnoreCloses(s) ==
    /\ rx[s].state = "Active"
    /\ \E f \in OtherFrames : TRUE
    /\ DropReceiver(s, "returned")
    /\ UNCHANGED << usersVars, logVars, capacity, buffer, tailPos, published, overrun,
                    seen, wire, task, resp, lastPublish, nreq >>

\* select!: socket.recv() is ready with Text, Binary, Ping or Pong: logged,
\* and the loop goes round.
SessionIgnore(s) ==
    /\ rx[s].state = "Active"
    /\ \E f \in OtherFrames : TRUE
    /\ UNCHANGED vars

\* Message::Text(serde_json::to_string(&payload))
TextFrame(event) == [frame |-> "text", json |-> event]

\* select!: rx.recv() is ready with Ok(payload) and socket.send succeeds.
SessionForward(s) ==
    /\ rx[s].state = "Active"
    /\ LET got == RecvRef(rx[s].next) IN
       /\ got.kind = "Ok"
       /\ rx' = [rx EXCEPT ![s].next = got.next]
       /\ seen' = [seen EXCEPT ![s] = Append(@, got.val)]
       /\ wire' = [wire EXCEPT ![s] = Append(@, TextFrame(got.val))]
    /\ UNCHANGED << usersVars, logVars, hubVars, task, resp, lastPublish, nreq >>

\* select!: rx.recv() is ready with Ok(payload) and socket.send fails:
\* expect panics, the task unwinds and its receiver is dropped.
SessionWriteFail(s) ==
    /\ rx[s].state = "Active"
    /\ LET got == RecvRef(rx[s].next) IN
       /\ got.kind = "Ok"
       /\ seen' = [seen EXCEPT ![s] = Append(@, got.val)]
    /\ DropReceiver(s, "panic")
    /\ UNCHANGED << usersVars, logVars, capacity, buffer, tailPos, published, overrun, wire,
                    task, resp, lastPublish, nreq >>

\* select!: rx.recv() is ready with Err(Lagged(n)) and the session gives up
\* as log_broadcast does.
SessionLaggedCloses(s) ==
    /\ rx[s].state = "Active"
    /\ LET got == RecvRef(rx[s].next) IN
       /\ got.kind = "Lagged"
       /\ seen' = [seen EXCEPT ![s] = Append(@, LaggedItem(got.missed))]
    /\ DropReceiver(s, "returned")
    /\ UNCHANGED << usersVars, logVars, capacity, buffer, tailPos, published, overrun, wire,
                    task, resp, lastPublish, nreq >>

\* select!: rx.recv() is ready with Err(Lagged(n)): logged, and the loop
\* goes round.
SessionLagged(s) ==
    /\ rx[s].state = "Active"
    /\ LET got == RecvRef(rx[s].next) IN
       /\ got.kind = "Lagged"
       /\ rx' = [rx EXCEPT ![s].next = got.next]
       /\ seen' = [seen EXCEPT ![s] = Append(@, LaggedItem(got.missed))]
    /\ UNCHANGED << usersVars, logVars, hubVars, wire, task, resp, lastPublish, nreq >>

\* ------------------------------------------------------ log_broadcast
\* rx.recv().await? yields a payload, which is printed.
LogRecv ==
    /\ rx[LogRx].state = "Active"
    /\ LET got == RecvRef(rx[LogRx].next) IN
       /\ got.kind = "Ok"
       /\ rx' = [rx EXCEPT ![LogRx].next = got.next]
       /\ seen' = [seen EXCEPT ![LogRx] = Append(@, got.val)]
    /\ UNCHANGED << usersVars, logVars, hubVars, wire, task, resp, lastPublish, nreq >>

\* rx.recv().await? yields Err(Lagged(n)): log_broadcast returns the error
\* and its receiver is dropped.
LogLagged ==
    /\ rx[LogRx].state = "Active"
    /\ LET got == RecvRef(rx[LogRx].next) IN
       /\ got.kind = "Lagged"
       /\ seen' = [seen EXCEPT ![LogRx] = Append(@, LaggedItem(got.missed))]
    /\ DropReceiver(LogRx, "returned")
    /\ UNCHANGED << usersVars, logVars, capacity, buffer, tailPos, published, overrun, wire,
                    task, resp, lastPublish, nreq >>

\* ------------------------------------------------------ specification
Next ==
    \/ \E t \in AppTasks : SigninStart(t)
    \/ \E t \in AppTasks : AddUserAcquire(t)
    \/ \E t \in AppTasks : AddUserInsert(t)
    \/ \E t \in AppTasks : SigninPublish(t)
    \/ \E t \in AppListers : UsersListCall(t)
    \/ \E t \in AppTasks : UsersListAcquire(t)
    \/ \E t \in AppTasks : UsersListRead(t)
    \/ \E t \in AppTasks : MessageSendStart(t)
    \/ \E t \in AppTasks : SendAcquire(t)
    \/ \E t \in AppTasks : SendPush(t)
    \/ \E t \in AppTasks : MessageSendPublish(t)
    \/ \E t \in AppListers : MessagesListCall(t)
    \/ \E t \in AppTasks : MessagesListAcquire(t)
    \/ \E t \in AppTasks : MessagesListRead(t)
    \/ \E s \in AppSessions : SessionOpen(s)
    \/ \E s \in AppSessions : SessionClose(s)
    \/ \E s \in AppSessions : SessionIgnore(s)
    \/ \E s \in AppSessions : SessionForward(s)
    \/ \E s \in AppSessions : SessionWriteFail(s)
    \/ \E s \in AppSessions : SessionLagged(s)
    \/ LogRecv
    \/ LogLagged

\* The application: the handlers, the sessions and the logging subscriber.
Spec == Init /\ [][Next]_vars

\* The routes that mutate and publish (POST /signin, POST /messages) with
\* the session and the logging subscriber.
NextHandlers ==
    \/ \E t \in AppTasks : SigninStart(t)
    \/ \E t \in AppTasks : AddUserAcquire(t)
    \/ \E t \in AppTasks : AddUserInsert(t)
    \/ \E t \in AppTasks : SigninPublish(t)
    \/ \E t \in AppTasks : MessageSendStart(t)
    \/ \E t \in AppTasks : SendAcquire(t)
    \/ \E t \in AppTasks : SendPush(t)
    \/ \E t \in AppTasks : MessageSendPublish(t)
    \/ \E s \in AppSessions : SessionOpen(s)
    \/ \E s \in AppSessions : SessionClose(s)
    \/ \E s \in AppSessions : SessionIgnore(s)
    \/ \E s \in AppSessions : SessionForward(s)
    \/ \E s \in AppSessions : SessionWriteFail(s)
    \/ \E s \in AppSessions : SessionLagged(s)
    \/ LogRecv
    \/ LogLagged

SpecHandlers == Init /\ [][NextHandlers]_vars

\* The hub takes no step in the specifications of the registry and of the
\* log: one capacity is enough there.
InitStores == Init /\ capacity = 1

\* The registry under concurrent direct callers.
NextUsers ==
    \/ \E t \in Tasks : AddUserStart(t)
    \/ \E t \in Tasks : AddUserAcquire(t)
    \/ \E t \in Tasks : AddUserInsert(t)
    \/ \E t \in Listers : UsersListCall(t)
    \/ \E t \in Tasks : UsersListAcquire(t)
    \/ \E t \in Tasks : UsersListRead(t)

SpecUsers == InitStores /\ [][NextUsers]_vars

\* The message log under concurrent direct callers.
NextMessages ==
    \/ \E t \in Tasks : SendStart(t)
    \/ \E t \in Tasks : SendAcquire(t)
    \/ \E t \in Tasks : SendPush(t)
    \/ \E t \in Listers : MessagesListCall(t)
    \/ \E t \in Tasks : MessagesListAcquire(t)
    \/ \E t \in Tasks : MessagesListRead(t)

SpecMessages == InitStores /\ [][NextMessages]_vars

\* The hub under direct publishers, with the sessions and log_broadcast.
NextHub ==
    \/ Publish
    \/ \E s \in Sessions : SessionOpen(s)
    \/ \E s \in Sessions : SessionClose(s)
    \/ \E s \in Sessions : SessionIgnore(s)
    \/ \E s \in Sessions : SessionForward(s)
    \/ \E s \in Sessions : SessionWriteFail(s)
    \/ \E s \in Sessions : SessionLagged(s)
    \/ LogRecv
    \/ LogLagged

SpecHub == Init /\ [][NextHub]_vars

\* ============================================================ claims
\* Tasks that hold an index and have not stored their message yet.
SendInFlight == { t \in Tasks : task[t].pc \in { "send_wait", "send_locked" } }

\* The indices Messages::send has handed out: those of the payloads already
\* pushed (and returned) and those held by calls still in flight.
IndicesTaken ==
    { messages[i].index : i \in DOMAIN messages }
        \cup { task[t].payload.index : t \in SendInFlight }

\* C1: after N calls of Messages::send on a fresh log, in any interleaving,
\* the N indices handed out are pairwise distinct and are exactly 0..N-1.
C1_IndicesDistinctContiguous ==
    /\ Len(messages) + Cardinality(SendInFlight) = nreq
    /\ Cardinality(IndicesTaken) = nreq
    /\ IndicesTaken = 0..(nreq - 1)

\* C1 witness: three calls ran concurrently (the last index was stored
\* first) and all three have returned.
C1_Witness ==
    /\ Len(messages) = 3
    /\ messages[1].index = 2
    /\ SendInFlight = {}

\* C2: in every reachable state the stored vector is in strictly ascending
\* index order.
C2_StoredAscending ==
    \A i, j \in DOMAIN messages : i < j => messages[i].index < messages[j].index

\* C3: a publish made while the hub has no subscriber returns Ok (the event
\* is dropped), not an error.
C3_PublishOkWithoutSubscribers ==
    [][(rxCnt = 0 /\ Publish) => lastPublish' = "Ok"]_vars

\* Unread events of an active receiver.
Backlog(r) == tailPos - rx[r].next

\* Whether the event at position i of receiver r's history is the event
\* published at position k (counted from 1).
IsPublishedAt(r, i, k) ==
    /\ k \in DOMAIN published
    /\ seen[r][i] = published[k]

\* The channel position a receiver's history ends at when it is read against
\* the published sequence from position pos: each event must be the next one
\* published, each Lagged(n) skips n events; -1 when the history does not fit.
RECURSIVE Walk(_, _)
Walk(items, pos) ==
    IF items = << >> THEN pos
    ELSE IF pos = -1 THEN -1
    ELSE LET item == Head(items) IN
         IF item.tag = "lagged"
         THEN Walk(Tail(items), pos + item.missed)
         ELSE IF pos + 1 \in DOMAIN published /\ published[pos + 1] = item
         THEN Walk(Tail(items), pos + 1)
         ELSE -1

\* C4: a subscriber that subscribed before any publish and whose backlog
\* never exceeded the capacity has received the published events exactly once
\* and in publish order: its history is a prefix of the published sequence,
\* and all of it once the receiver has nothing left to read.
C4_InOrderExactlyOnce ==
    \A r \in Receivers :
        (rx[r].state # "Init" /\ rx[r].since = 0 /\ r \notin overrun) =>
            /\ Len(seen[r]) <= Len(published)
            /\ seen[r] = SubSeq(published, 1, Len(seen[r]))
            /\ rx[r].state = "Active" =>
                   /\ rx[r].next = Len(seen[r])
                   /\ RecvRef(rx[r].next).kind = "Empty" => seen[r] = published

\* C4 witness: a session that subscribed first has received the SignIn and
\* then the Message published after it, and nothing is left to read.
C4_Witness ==
    \E s \in Sessions :
        /\ rx[s].state = "Active" /\ rx[s].since = 0 /\ s \notin overrun
        /\ Len(published) >= 2
        /\ seen[s] = published
        /\ published[1].tag = "signIn" /\ published[2].tag = "message"

\* C5: a subscription yields no event published before it was created: every
\* event in its history was published after the position it subscribed at.
C5_NoReplay ==
    \A r \in Receivers :
        rx[r].state # "Init" =>
            \A i \in DOMAIN seen[r] :
                seen[r][i].tag # "lagged" =>
                    /\ \E k \in (rx[r].since + 1)..Len(published) : IsPublishedAt(r, i, k)
                    /\ \A k \in 1..rx[r].since : ~IsPublishedAt(r, i, k)

\* C5 witness: a session subscribed after two events were published and has
\* since received an event.
C5_Witness ==
    \E s \in Sessions :
        /\ rx[s].state = "Active" /\ rx[s].since = 2
        /\ Len(seen[s]) >= 1

\* C6 as stated: once an event is published while a subscriber's backlog is
\* at the capacity asked of the channel, that subscriber's next receive
\* yields the missed-events condition.
C6_LagAtRequestedCapacity ==
    \A r \in Receivers :
        (rx[r].state = "Active" /\ Backlog(r) > capacity) =>
            RecvRef(rx[r].next).kind = "Lagged"

\* C6 amended: the capacity that counts is the length of the channel's ring,
\* the requested capacity rounded up to a power of two. Once an event is
\* published while a subscriber's backlog is at that length, its next receive
\* yields Lagged(n) for the n oldest events, which are dropped for it, and
\* moves it to the oldest retained event; within that length the next receive
\* yields the next event published. Every history is events in publish order
\* with exactly the missed ones skipped, and a receiver that was not overrun
\* (any other subscriber) has no missed-events condition in its history.
C6_LagAtRingLength ==
    \A r \in Receivers :
        /\ rx[r].state # "Init" => Walk(seen[r], rx[r].since) # -1
        /\ r \notin overrun =>
               \A i \in DOMAIN seen[r] : seen[r][i].tag # "lagged"
        /\ rx[r].state = "Active" =>
               LET got == RecvRef(rx[r].next) IN
               /\ Walk(seen[r], rx[r].since) = rx[r].next
               /\ Backlog(r) > BufferLen =>
                      /\ r \in overrun
                      /\ got.kind = "Lagged"
                      /\ got.missed = Backlog(r) - BufferLen
                      /\ got.next = tailPos - BufferLen
               /\ (Backlog(r) > 0 /\ Backlog(r) <= BufferLen) =>
                      /\ got.kind = "Ok"
                      /\ got.val = published[rx[r].next + 1]
               /\ Backlog(r) = 0 => got.kind = "Empty"

\* C6 witness: on a channel asked for capacity 3 (a ring of 4) one session
\* was overrun, saw the missed-events condition and then received a retained
\* event, while the other session, not overrun, has received everything.
C6_Witness ==
    \E s, o \in Sessions :
        /\ capacity = 3 /\ s # o
        /\ rx[s].state = "Active" /\ s \in overrun
        /\ \E i \in DOMAIN seen[s] :
               /\ seen[s][i].tag = "lagged"
               /\ i < Len(seen[s])
        /\ rx[o].state = "Active" /\ o \notin overrun /\ rx[o].since = 0
        /\ seen[o] = published

\* C7: a publish never waits for a subscriber: whatever the receivers'
\* backlogs, the call can take its step (within the number of publishes
\* explored).
C7_PublishNeverBlocks ==
    nreq < BufferLen + MaxOverrun => ENABLED Publish

\* C7 witness: a publish completed although an active receiver, which does
\* not consume, already had a full ring of unread events.
C7_Witness ==
    /\ lastPublish = "Ok"
    /\ \E r \in Receivers : rx[r].state = "Active" /\ Backlog(r) > BufferLen

\* Strictly ascending in the byte-wise order of String.
StrictlyAscending(names) ==
    \A i, j \in DOMAIN names : i < j => LexLess(names[i], names[j])

\* Tasks inside Users::add_user.
AddInFlight == { t \in Tasks : task[t].pc \in { "add_user_wait", "add_user_locked" } }

\* C8: whatever the add_user calls and their interleaving, repeated names
\* included, the registry holds exactly the names added (a repeated add
\* changes nothing), and a list returns names in strictly ascending order,
\* hence each once: every name whose add had returned when list was called,
\* and only names add_user was called with.
C8_ListDistinctSorted ==
    /\ data = added
    /\ \A t \in Tasks :
           resp[t].kind = "users_list" =>
               /\ StrictlyAscending(resp[t].users)
               /\ resp[t].pre \subseteq Range(resp[t].users)
               /\ Range(resp[t].users) \subseteq called

\* C8 witness: three add_user calls, one of them with a repeated name, have
\* all returned, and a list called after them returned the two distinct names
\* in order.
C8_Witness ==
    /\ nreq = 3 /\ AddInFlight = {}
    /\ added = { <<1>>, <<1, 2>> }
    /\ \E t \in Tasks :
           /\ resp[t].kind = "users_list"
           /\ resp[t].pre = added
           /\ resp[t].users = << <<1>>, <<1, 2>> >>

\* Receivers subscribed to the channel.
ActiveReceivers == { r \in Receivers : rx[r].state = "Active" }

\* C9: when socket.recv() yields a close frame, an error or the end of the
\* stream, handle_socket ends in that step and its subscription is dropped
\* once (the channel counts one receiver fewer, and exactly the active ones);
\* a closed session receives and writes nothing more; the step leaves every
\* other receiver as it was, and an active session with unread events can
\* always take its next receive.
C9_CloseReleasesOnlyThatSession ==
    /\ [](/\ rxCnt = Cardinality(ActiveReceivers)
          /\ \A o \in Sessions :
                 (rx[o].state = "Active" /\ Backlog(o) > 0) =>
                     ENABLED (SessionForward(o) \/ SessionLagged(o)))
    /\ [][\A s \in Sessions :
              /\ SessionClose(s) =>
                     /\ rx'[s].state = "Closed"
                     /\ rxCnt' = rxCnt - 1
                     /\ \A o \in Receivers \ {s} : rx'[o] = rx[o] /\ seen'[o] = seen[o]
                     /\ \A o \in Sessions \ {s} : wire'[o] = wire[o]
              /\ rx[s].state = "Closed" =>
                     /\ rx'[s] = rx[s]
                     /\ seen'[s] = seen[s]
                     /\ wire'[s] = wire[s]]_vars

\* C9 witness: the first session has returned after forwarding one event,
\* and the second, still active, has forwarded three.
C9_Witness ==
    /\ rx[1].state = "Closed" /\ rx[1].exit = "returned" /\ rx[1].since = 0
    /\ Len(wire[1]) = 1
    /\ rx[2].state = "Active" /\ rx[2].since = 0
    /\ Len(wire[2]) = 3

\* C10: a failed write ends that session and nothing else: the other
\* receivers are untouched, and the hub still accepts a publish made after
\* a session has ended that way.
C10_WriteFailureConfined ==
    [][/\ \A s \in Sessions :
              SessionWriteFail(s) =>
                  /\ rx'[s].state = "Closed"
                  /\ \A o \in Receivers \ {s} : rx'[o] = rx[o] /\ seen'[o] = seen[o]
       /\ ((\E s \in Sessions : rx[s].state = "Closed" /\ rx[s].exit = "panic")
               /\ Publish) => lastPublish' = "Ok"]_vars

\* Whether receiver r's history holds a missed-events condition.
HasLagged(r) == \E i \in DOMAIN seen[r] : seen[r][i].tag = "lagged"

\* C11: when a session's receive yields Lagged(n), the session stays Active
\* and subscribed, writes nothing to its socket for it, and resumes at the
\* oldest retained event: its next receive yields that event, and what it
\* has written is, in publish order, a subset of what was published. Every
\* other receiver is left as it was.
C11_LagKeepsSessionActive ==
    /\ [][\A s \in Sessions :
              SessionLagged(s) =>
                  /\ rx'[s].state = "Active"
                  /\ rxCnt' = rxCnt
                  /\ wire' = wire
                  /\ rx'[s].next = tailPos - BufferLen
                  /\ RecvRef(rx'[s].next).kind = "Ok"
                  /\ RecvRef(rx'[s].next).val = published[rx'[s].next + 1]
                  /\ \A o \in Receivers \ {s} : rx'[o] = rx[o] /\ seen'[o] = seen[o]]_vars
    /\ [](\A s \in Sessions :
              /\ (rx[s].state = "Active" /\ Backlog(s) > 0) =>
                     ENABLED (SessionForward(s) \/ SessionLagged(s))
              /\ \A i, j \in DOMAIN wire[s] :
                     i < j => \E k, l \in DOMAIN published :
                                  /\ k < l
                                  /\ wire[s][i] = TextFrame(published[k])
                                  /\ wire[s][j] = TextFrame(published[l]))

\* C11 witness: a session that lagged is still Active and has since
\* forwarded two events to its socket.
C11_Witness ==
    \E s \in Sessions :
        /\ rx[s].state = "Active"
        /\ Len(seen[s]) = 3
        /\ seen[s][1].tag = "lagged"
        /\ Len(wire[s]) = 2

\* C12: an inbound text, binary, ping or pong frame can be taken by every
\* Active session, and the step that takes it changes nothing: the session
\* stays Active with its subscription and its position, nothing is published
\* and nothing is written to any socket.
C12_OtherFramesChangeNothing ==
    /\ [][\A s \in Sessions :
              SessionIgnore(s) =>
                  /\ rx' = rx /\ rxCnt' = rxCnt
                  /\ seen' = seen /\ wire' = wire
                  /\ published' = published /\ tailPos' = tailPos /\ buffer' = buffer]_vars
    /\ [](\A s \in Sessions : rx[s].state = "Active" => ENABLED SessionIgnore(s))

\* C12 witness: an Active session that has forwarded an event and has another
\* one unread can take such a frame; the step leaves no trace, so the state
\* it leads to is this one, with the position and the socket as they were.
C12_Witness ==
    \E s \in Sessions :
        /\ rx[s].state = "Active"
        /\ rx[s].next = 1 /\ Backlog(s) = 1
        /\ Len(wire[s]) = 1
        /\ ENABLED SessionIgnore(s)

\* The indices of the messages stored in the log.
StoredIndices == { messages[i].index : i \in DOMAIN messages }

\* C13: when the publish inside signin or message_send fails, the handler
\* answers with a failure and publishes nothing, and the mutation made before
\* stays: the name is in the registry, the message is in the log and its
\* index is consumed. This holds of the failing step and of every later state.
C13_PublishFailureKeepsMutation ==
    /\ [][\A t \in Tasks :
              /\ (SigninPublish(t) /\ ~SendOk) =>
                     /\ resp'[t].kind = "signin" /\ resp'[t].status = 500
                     /\ task[t].user \in data'
                     /\ published' = published
              /\ (MessageSendPublish(t) /\ ~SendOk) =>
                     /\ resp'[t].kind = "message_send" /\ resp'[t].status = 500
                     /\ task[t].payload \in Range(messages')
                     /\ counter' > task[t].payload.index
                     /\ published' = published]_vars
    /\ [](\A t \in Tasks :
              /\ (resp[t].kind = "signin" /\ resp[t].status = 500) =>
                     resp[t].user \in data
              /\ (resp[t].kind = "message_send" /\ resp[t].status = 500) =>
                     /\ resp[t].index \in StoredIndices
                     /\ counter > resp[t].index)

\* C13 witness: a sign-in was answered with a failure, its event was not
\* published, and its name is in the registry.
C13_Witness ==
    \E t \in Tasks :
        /\ resp[t].kind = "signin" /\ resp[t].status = 500
        /\ resp[t].user \in data
        /\ \A k \in DOMAIN published : published[k].tag # "signIn"

\* The positions of the published sequence that hold a SignIn event.
SignInPositions == { k \in DOMAIN published : published[k].tag = "signIn" }

\* C14: the step in which a sign-in for u publishes successfully finds u in
\* the registry, appends exactly one event, SignIn(u), to the channel, where
\* every receiver subscribed at that moment has yet to read it, and answers
\* 200 with u; no other step publishes a SignIn. A receiver that was not
\* overrun and has nothing left to read has received every event published
\* since it subscribed, that SignIn included.
C14_SigninAddsPublishesReturns ==
    /\ [][/\ \A t \in Tasks :
                (SigninPublish(t) /\ SendOk) =>
                    /\ task[t].user \in data /\ data' = data
                    /\ published' = Append(published, SignInEvent(task[t].user))
                    /\ buffer'[tailPos % BufferLen] =
                           [pos |-> tailPos, val |-> SignInEvent(task[t].user)]
                    /\ \A r \in Receivers :
                           rx[r].state = "Active" =>
                               rx'[r] = rx[r] /\ rx[r].next <= tailPos
                    /\ resp'[t] = [kind |-> "signin", status |-> 200,
                                   user |-> task[t].user]
          /\ (\E k \in DOMAIN published' :
                  k > Len(published) /\ published'[k].tag = "signIn") =>
                 \E t \in Tasks : SigninPublish(t)]_vars
    /\ [](\A r \in Receivers :
              (rx[r].state = "Active" /\ r \notin overrun /\ Backlog(r) = 0) =>
                  seen[r] = SubSeq(published, rx[r].since + 1, Len(published)))

\* C14 witness: a sign-in was answered 200 with its name, the name is in the
\* registry, one SignIn was published, and the session, subscribed before,
\* has received it and written it to its socket.
C14_Witness ==
    \E t \in Tasks, s \in Sessions :
        /\ resp[t].kind = "signin" /\ resp[t].status = 200
        /\ resp[t].user \in data
        /\ Cardinality(SignInPositions) = 1
        /\ rx[s].state = "Active" /\ rx[s].since = 0
        /\ SignInEvent(resp[t].user) \in Range(seen[s])
        /\ TextFrame(SignInEvent(resp[t].user)) \in Range(wire[s])

\* The positions of the published sequence that hold the Message event with
\* index i.
MessagePositions(i) ==
    { k \in DOMAIN published :
          published[k].tag = "message" /\ published[k].message.index = i }

\* C15: the step in which a message_send for (user, text) publishes
\* successfully appends exactly one event, a Message that carries the
\* request's user and text and the index the handler answers with; and the
\* index of every 200 answer is the index of exactly one published Message.
C15_ReturnedIndexIsPublishedIndex ==
    /\ [][\A t \in Tasks :
              (MessageSendPublish(t) /\ SendOk) =>
                  /\ Len(published') = Len(published) + 1
                  /\ LET event == published'[Len(published')] IN
                     /\ event.tag = "message"
                     /\ event.message.user = task[t].user
                     /\ event.message.message = task[t].message
                     /\ resp'[t].kind = "message_send" /\ resp'[t].status = 200
                     /\ resp'[t].index = event.message.index]_vars
    /\ [](\A t \in Tasks :
              (resp[t].kind = "message_send" /\ resp[t].status = 200) =>
                  Cardinality(MessagePositions(resp[t].index)) = 1)

\* C15 witness: of two concurrent requests the one that got index 1 published
\* first, and it was answered 200 with index 1.
C15_Witness ==
    \E t \in Tasks :
        /\ resp[t].kind = "message_send" /\ resp[t].status = 200
        /\ resp[t].index = 1
        /\ MessagePositions(1) = {1}
        /\ published[1].message.user \in SenderNames
        /\ published[1].message.message \in Texts

\* C16: every result of Messages::list is in ascending index order and holds
\* exactly the indices 0..k-1 for some k: no message is listed while one with
\* a smaller index is missing.
C16_ListGapFreePrefix ==
    \A t \in Tasks :
        resp[t].kind = "messages_list" =>
            LET listed == resp[t].messages IN
            /\ \A i, j \in DOMAIN listed : i < j => listed[i].index < listed[j].index
            /\ { listed[i].index : i \in DOMAIN listed } = 0..(Len(listed) - 1)

\* The tasks that hold a lock, as writer or as reader.
Holders(lock) == (IF lock.writer = 0 THEN {} ELSE {lock.writer}) \cup lock.readers

\* Tasks inside a call of the hub.
Publishing ==
    { t \in Tasks : task[t].pc \in { "sign_in_publish", "send_message_publish" } }

\* C17: the registry lock is held only by tasks inside Users::add_user (the
\* writer) or Users::list (readers), the log's lock only by tasks inside
\* Messages::send or Messages::list: a task that is publishing holds neither,
\* and the sessions and log_broadcast, which subscribe and wait on the
\* socket and the channel, never hold one. A lock held by a writer has no
\* reader and no second writer.
C17_LocksNotHeldAcrossHub ==
    /\ \A t \in Publishing : t \notin Holders(usersLock) \cup Holders(messagesLock)
    /\ Holders(usersLock) \cup Holders(messagesLock) \subseteq Tasks
    /\ \A t \in Tasks :
           /\ task[t].pc = "add_user_locked" <=> usersLock.writer = t
           /\ task[t].pc = "users_list_locked" <=> t \in usersLock.readers
           /\ task[t].pc = "send_locked" <=> messagesLock.writer = t
           /\ task[t].pc = "messages_list_locked" <=> t \in messagesLock.readers
    /\ usersLock.writer # 0 => usersLock.readers = {}
    /\ messagesLock.writer # 0 => messagesLock.readers = {}

\* C17 witness: one task is publishing its message while the other holds the
\* log's write lock, and a session is subscribed.
C17_Witness ==
    \E t, u \in Tasks, s \in Sessions :
        /\ task[t].pc = "send_message_publish"
        /\ task[u].pc = "send_locked" /\ messagesLock.writer = u
        /\ rx[s].state = "Active"

\* C18: across every step, each stored message stays at its place in the log
\* with its index, user and text, and each registered name stays registered:
\* the log only grows at its end and the registry only grows.
C18_AppendOnly ==
    [][/\ Len(messages') >= Len(messages)
       /\ \A i \in DOMAIN messages : messages'[i] = messages[i]
       /\ data \subseteq data']_vars

\* C18 witness: two messages are stored, the second after the first was
\* already there, and a name registered before them is still registered.
C18_Witness ==
    /\ Len(messages) = 2
    /\ data # {}
    /\ nreq = 3
    /\ \A t \in Tasks : task[t].pc = "idle"

\* The Message events of a history, in its order.
MessagesOf(items) == SelectSeq(items, LAMBDA item : item.tag = "message")

\* C19: under concurrent message_send requests every subscriber observes
\* Message events with strictly increasing indices.
C19_StreamInIndexOrder ==
    \A r \in Receivers :
        LET observed == MessagesOf(seen[r]) IN
        \A i, j \in DOMAIN observed :
            i < j => observed[i].message.index < observed[j].message.index

\* C20: whenever a receiver holds a Message event, that message is stored in
\* the log and a list made then returns it; whenever it holds a SignIn(u)
\* event, u is in the registry. The same holds of every event the channel
\* has accepted.
C20_StoredBeforeAnnounced ==
    \A r \in Receivers :
        \A item \in Range(seen[r]) \cup Range(published) :
            /\ item.tag = "message" =>
                   /\ item.message \in Range(messages)
                   /\ item.message \in Range(SortByIndex(messages))
            /\ item.tag = "signIn" => item.user \in data

\* C20 witness: the session has received a SignIn and a Message published by
\* the handlers while another message_send, whose message is also stored, has
\* yet to publish.
C20_Witness ==
    \E s \in Sessions, t \in Tasks :
        /\ \E i \in DOMAIN seen[s] : seen[s][i].tag = "signIn"
        /\ \E i \in DOMAIN seen[s] : seen[s][i].tag = "message"
        /\ task[t].pc = "send_message_publish"
        /\ Len(messages) = 2

\* C21: log_broadcast stays subscribed whatever its receives yield, so the
\* channel always has a receiver and no handler answers with a publish
\* failure.
C21_LoggerStaysSubscribed ==
    /\ rx[LogRx].state = "Active"
    /\ rxCnt >= 1
    /\ \A t \in Tasks :
           resp[t].kind \in { "signin", "message_send" } => resp[t].status = 200

====
